---- MODULE Spec2Model ----
(***************************************************************************)
(* The users service of app.go: one process that builds a pgx pool, runs   *)
(* the schema bootstrap, registers two routes and serves requests, each    *)
(* request handled concurrently with the others against one PostgreSQL     *)
(* database that holds the users table and its SERIAL sequence.            *)
(***************************************************************************)
EXTENDS Integers, Sequences, FiniteSets

VARIABLES
    proc,         \* position of the process: start, pool, ready, listening, exited
    pool,         \* app.db / the pool initDB holds: "nil" or "open"
    bootstrapped, \* the CREATE TABLE statement of this run returned without error
    routes,       \* http.HandleFunc has registered the two routes in this run
    exitCode,     \* status of the last exit of the process (0: has not exited)
    logged,       \* the fatal cause log.Fatalf printed before that exit
    boots,        \* how many runs of the bootstrap statement have succeeded so far
    db,           \* reachability of the database: "up" or "down"
    tableExists,  \* the users table exists in the database
    rows,         \* the committed rows of users, in insertion order
    seq,          \* last value of the sequence behind id SERIAL
    req           \* the requests, by number: position, locals and response

vars == <<proc, pool, bootstrapped, routes, exitCode, logged, boots,
          db, tableExists, rows, seq, req>>

procVars == <<proc, pool, bootstrapped, routes, exitCode, logged, boots>>
dbVars == <<tableExists, rows, seq>>

\* Bounds of the model.
MaxReq == 3
MaxRestarts == 1

ReqIds == 1..MaxReq

\* http.Status* values used by the handlers.
StatusOK == 200
StatusCreated == 201
StatusBadRequest == 400
StatusInternalServerError == 500
StatusBadGateway == 502

--------------------------------------------------------------------------
(* Request bodies and json.Decoder.Decode with DisallowUnknownFields.      *)

\* A JSON value of a body: a string or a number.
Str(s) == [t |-> "string", s |-> s]
Num(s) == [t |-> "number", s |-> s]

\* A body as the bytes the decoder reads: `first` is what the first JSON
\* value of the stream is ("object", or "garbage" when no value parses),
\* `fields` its members in order, `rest` what follows the first value.
Body(first, fields, rest) == [first |-> first, fields |-> fields, rest |-> rest]

NoBody == Body("none", <<>>, "")

Bodies ==
    { Body("garbage", <<>>, ""),                                      \* not json
      Body("object", <<>>, ""),                                       \* {}
      Body("object", << <<"name", Str("")>> >>, ""),                  \* {"name":""}
      Body("object", << <<"name", Str("a")>> >>, ""),                 \* {"name":"a"}
      Body("object", << <<"name", Str("b")>> >>, ""),                 \* {"name":"b"}
      Body("object", << <<"name", Str("a")>>, <<"extra", Str("x")>> >>, ""),
      Body("object", << <<"name", Num("7")>> >>, ""),                 \* {"name":7}
      Body("object", << <<"name", Str("a")>> >>, "junk") }            \* {"name":"a"}junk

\* The fields of AddUserRequest, by their json tag.
AddUserRequestFields == {"name"}

\* Decoding the members of an object into AddUserRequest, left to right:
\* a member that names no field is an error (DisallowUnknownFields), a
\* member whose value is not a string is an error, a later member of the
\* same name overrides an earlier one. A field no member names keeps its
\* zero value "".
RECURSIVE DecodeFields(_, _)
DecodeFields(fields, acc) ==
    IF fields = <<>> THEN acc
    ELSE LET k == Head(fields)[1]
             v == Head(fields)[2]
         IN  IF k \notin AddUserRequestFields \/ v.t # "string"
             THEN [err |-> TRUE, name |-> ""]
             ELSE DecodeFields(Tail(fields), [err |-> FALSE, name |-> v.s])

\* decoder.Decode(&req): reads the first JSON value of the body and stops;
\* bytes after that value stay unread in the decoder's buffer and raise
\* no error.
Decode(body) ==
    IF body.first # "object" THEN [err |-> TRUE, name |-> ""]
    ELSE DecodeFields(body.fields, [err |-> FALSE, name |-> ""])

\* The name check left out: every decoded name goes on to the insert.
NameCheckSkipped(name) == FALSE

\* req.Name == "" of handleAddUser.
NameMissing(name) == name = ""

--------------------------------------------------------------------------
(* Values the handlers hold and write.                                     *)

User(id, name) == [id |-> id, name |-> name]

\* A Go slice of User: nil, or a (possibly empty) list.
NilUsers == [nil |-> TRUE, elems |-> <<>>]
\* var users []User in place of make([]User, 0).
MakeUsersNil == NilUsers
\* make([]User, 0)
MakeUsers == [nil |-> FALSE, elems |-> <<>>]
\* append(users, u): the result is never nil.
AppendUser(users, u) == [nil |-> FALSE, elems |-> Append(users.elems, u)]

\* Response bodies. encoding/json writes a nil slice as null and an empty
\* one as [].
NoResp == [type |-> "none", msg |-> "", id |-> 0, name |-> "",
           null |-> FALSE, users |-> <<>>]
EmptyResp == [NoResp EXCEPT !.type = "empty"]
ErrorJSON(msg) == [NoResp EXCEPT !.type = "error_json", !.msg = msg]
ErrorText(msg) == [NoResp EXCEPT !.type = "error_text", !.msg = msg]
UserResponse(id, name) == [NoResp EXCEPT !.type = "user", !.id = id, !.name = name]
GetUsersResponse(users) ==
    [NoResp EXCEPT !.type = "users", !.null = users.nil, !.users = users.elems]

\* A request that has not arrived yet.
Idle ==
    [method |-> "", path |-> "", pc |-> "idle", body |-> NoBody,
     cancelled |-> FALSE,      \* r.Context() is done
     name |-> "",              \* req.Name
     reply |-> 0,              \* id the database returned for this request's insert
     snap |-> <<>>,            \* result set of this request's SELECT
     users |-> NilUsers,
     acked |-> {},             \* users answered 201 before this request's SELECT ran
     err |-> "none",           \* the data-access call of this request that failed
                               \* ("iter": rows.Err() is set after rows.Next())
     status |-> 0, resp |-> NoResp]

InFlight(r) == req[r].pc \notin {"idle", "done", "dropped"}

--------------------------------------------------------------------------
(* The process: initDB, initApp and main.                                  *)

Init ==
    /\ proc = "start"
    /\ pool = "nil"
    /\ bootstrapped = FALSE
    /\ routes = FALSE
    /\ exitCode = 0
    /\ logged = ""
    /\ boots = 0
    /\ db \in {"up", "down"}
    /\ tableExists = FALSE
    /\ rows = <<>>
    /\ seq = 0
    /\ req = [r \in ReqIds |-> Idle]

\* log.Fatalf / log.Fatal: print the cause and os.Exit(1).
Fatal(cause) ==
    /\ proc' = "exited"
    /\ exitCode' = 1
    /\ logged' = cause

\* pgxpool.New(ctx, connString): fails when the connection string built
\* from the environment does not parse.
InitDBPool ==
    /\ proc = "start"
    /\ \E parses \in BOOLEAN :
          IF parses
          THEN /\ proc' = "pool"
               /\ pool' = "open"
               /\ UNCHANGED <<exitCode, logged>>
          ELSE /\ Fatal("Failed to init db")
               /\ UNCHANGED pool
    /\ UNCHANGED <<bootstrapped, routes, boots, db, dbVars, req>>

\* CREATE TABLE users (...) without IF NOT EXISTS: a table that exists is
\* an error ("relation already exists").
CreateTableUsersPlain(exists, rws, sq) ==
    IF exists
    THEN [err |-> TRUE, exists |-> TRUE, rows |-> rws, seq |-> sq]
    ELSE [err |-> FALSE, exists |-> TRUE, rows |-> <<>>, seq |-> 0]

\* CREATE TABLE IF NOT EXISTS users (id SERIAL PRIMARY KEY, name TEXT NOT
\* NULL): a table that exists is left as it is, with a notice and no error.
CreateTableUsers(exists, rws, sq) ==
    IF exists
    THEN [err |-> FALSE, exists |-> TRUE, rows |-> rws, seq |-> sq]
    ELSE [err |-> FALSE, exists |-> TRUE, rows |-> <<>>, seq |-> 0]

\* pool.Exec(context.Background(), "CREATE TABLE IF NOT EXISTS ...").
ExecCreateTable ==
    IF db # "up"
    THEN [err |-> TRUE, exists |-> tableExists, rows |-> rows, seq |-> seq]
    ELSE CreateTableUsers(tableExists, rows, seq)

\* The error of the bootstrap statement dropped: initDB returns the pool.
BootstrapErrorIgnored(res) == FALSE

\* What initDB does with the error of the bootstrap statement.
BootstrapFailed(res) == res.err

InitDBExec ==
    /\ proc = "pool"
    /\ LET res == ExecCreateTable IN
          /\ tableExists' = res.exists
          /\ rows' = res.rows
          /\ seq' = res.seq
          /\ IF BootstrapFailed(res)
             THEN /\ Fatal("Failed to init db")
                  /\ UNCHANGED <<bootstrapped, boots>>
             ELSE /\ proc' = "ready"
                  /\ bootstrapped' = ~res.err
                  /\ boots' = boots + 1
                  /\ UNCHANGED <<exitCode, logged>>
    /\ UNCHANGED <<pool, routes, db, req>>

\* main after initApp: register the two routes, then ListenAndServe, which
\* returns only with an error (the port cannot be bound), and log.Fatal.
Listen ==
    /\ proc = "ready"
    /\ routes' = TRUE
    /\ \E binds \in BOOLEAN :
          IF binds
          THEN /\ proc' = "listening"
               /\ UNCHANGED <<exitCode, logged>>
          ELSE Fatal("listen")
    /\ UNCHANGED <<pool, bootstrapped, boots, db, dbVars, req>>

\* What is left of a request whose handler died with the process.
Dropped(rec) ==
    [Idle EXCEPT !.pc = "dropped", !.method = rec.method, !.path = rec.path,
                 !.cancelled = TRUE, !.reply = rec.reply]

\* The orchestrator (restart: unless-stopped) starts the process again,
\* after an exit or after the death of a running one; requests the old
\* process was handling get no response. The model follows a restart only
\* while a request is still to come, and at most MaxRestarts restarts of a
\* process whose bootstrap had succeeded.
Restart ==
    /\ boots <= MaxRestarts
    /\ \E r \in ReqIds : req[r].pc = "idle"
    /\ proc' = "start"
    /\ pool' = "nil"
    /\ bootstrapped' = FALSE
    /\ routes' = FALSE
    /\ exitCode' = 0
    /\ logged' = ""
    /\ req' = [r \in ReqIds |->
                 IF InFlight(r) THEN Dropped(req[r]) ELSE req[r]]
    /\ UNCHANGED <<boots, db, dbVars>>

\* The database becomes unreachable, or reachable again.
DbFlip ==
    /\ db' = IF db = "up" THEN "down" ELSE "up"
    /\ UNCHANGED <<procVars, dbVars, req>>

--------------------------------------------------------------------------
(* Requests: the router of main and the three handlers. A handler runs     *)
(* from the arrival of its request to its first data-access call in one    *)
(* step; the steps of concurrent handlers interleave at those calls.       *)

Requests ==
    {[method |-> "GET", path |-> "/api/users", body |-> NoBody],
     [method |-> "PUT", path |-> "/api/users", body |-> NoBody],
     [method |-> "GET", path |-> "/_internal/health", body |-> NoBody]}
    \cup {[method |-> "POST", path |-> "/api/users", body |-> b] : b \in Bodies}

\* The listener accepts request q as request r; requests are numbered in
\* arrival order. `gone`: the client has gone away already.
Accepts(r, q, gone) ==
    /\ proc = "listening"
    /\ req[r].pc = "idle"
    /\ IF r = 1 THEN TRUE ELSE req[r - 1].pc # "idle"
    /\ q \in Requests
    /\ gone \in BOOLEAN

Accepted(r, q, gone) ==
    [req[r] EXCEPT !.method = q.method, !.path = q.path, !.body = q.body,
                   !.cancelled = gone]

\* The handler of request `rec` returns having written status and resp: its
\* locals and its result set are released (defer rows.Close()), the body is
\* closed (defer Body.Close()), and net/http cancels the request's context.
Respond(rec, status, resp, err) ==
    [rec EXCEPT !.pc = "done", !.status = status, !.resp = resp, !.err = err,
                !.cancelled = TRUE, !.body = NoBody, !.name = "",
                !.snap = <<>>, !.users = NilUsers, !.acked = {}]

\* The client of a request that waits at a data-access call goes away: the
\* request's context is done. (Before the first call a handler does not
\* look at its context: going away then shows at that call.)
Cancel(r) ==
    /\ req[r].pc \in {"rows", "insert", "scan"}
    /\ ~req[r].cancelled
    /\ req' = [req EXCEPT ![r].cancelled = TRUE]
    /\ UNCHANGED <<procVars, db, dbVars>>

\* The switch of the /api/users route has no case for the method: the
\* handler returns having written nothing, and net/http answers 200 with
\* an empty body.
HandleOtherMethod(r) ==
    /\ \E q \in Requests :
          /\ Accepts(r, q, FALSE)
          /\ q.path = "/api/users"
          /\ q.method \notin {"GET", "POST"}
          /\ req' = [req EXCEPT ![r] =
                        Respond(Accepted(r, q, FALSE), StatusOK, EmptyResp, "none")]
    /\ UNCHANGED <<procVars, db, dbVars>>

\* Users answered 201 so far.
Acked == {User(req[p].resp.id, req[p].resp.name) :
             p \in {p \in ReqIds : req[p].pc = "done" /\ req[p].status = StatusCreated}}

\* Whether the data-access call of request `rec` under its r.Context() fails.
CallFails(rec) == db # "up" \/ rec.cancelled

\* handleGetUsers up to app.db.Query(r.Context(), "SELECT * FROM users;"):
\* the statement reads the rows committed when it executes.
HandleGetUsersQuery(r) ==
    /\ \E q \in Requests, gone \in BOOLEAN :
          /\ Accepts(r, q, gone)
          /\ q.path = "/api/users"
          /\ q.method = "GET"
          /\ LET rec == [Accepted(r, q, gone) EXCEPT !.acked = Acked] IN
             req' = [req EXCEPT ![r] =
                 IF CallFails(rec)
                 THEN Respond(rec, StatusInternalServerError, ErrorText("query"),
                              "query")
                 ELSE [rec EXCEPT !.pc = "rows", !.snap = rows,
                                  !.users = MakeUsers]]
    /\ UNCHANGED <<procVars, db, dbVars>>

\* The loop of handleGetUsers over the first n rows of a result set:
\* rows.Scan into id and name, then append.
RECURSIVE ScanRows(_, _, _)
ScanRows(users, rws, n) ==
    IF n = 0 THEN users
    ELSE ScanRows(AppendUser(users, User(Head(rws).id, Head(rws).name)),
                  Tail(rws), n - 1)

\* The response handleGetUsers writes once rows.Next() has returned false;
\* rows.Err() is never read.
EncodeUsers(rec, users, rowsErr) ==
    Respond(rec, StatusOK, GetUsersResponse(users), rowsErr)

\* handleGetUsers from the loop on. The result set is the request's own,
\* so the loop runs in one step: rows.Next() returns false at the end of
\* the result set, and also when reading the next row fails after n rows
\* (the connection is lost or the context is done; rows.Err() is then
\* set); rows.Scan of a row may fail.
HandleGetUsersRows(r) ==
    /\ req[r].pc = "rows"
    /\ LET rec == req[r]
           total == Len(rec.snap)
       IN  \/ /\ ~CallFails(rec) \/ total = 0
              /\ req' = [req EXCEPT ![r] =
                    EncodeUsers(rec, ScanRows(rec.users, rec.snap, total), "none")]
           \/ /\ CallFails(rec)
              /\ \E n \in 0..(total - 1) :
                    req' = [req EXCEPT ![r] =
                       EncodeUsers(rec, ScanRows(rec.users, rec.snap, n), "iter")]
           \/ /\ ~CallFails(rec)
              /\ \E n \in 0..(total - 1) :
                    req' = [req EXCEPT ![r] =
                       Respond(rec, StatusInternalServerError, ErrorText("scan"),
                               "scan")]
    /\ UNCHANGED <<procVars, db, dbVars>>

\* The router hands a POST on /api/users to handleAddUser, the body unread.
HandleAddUserAccept(r) ==
    /\ \E q \in Requests :
          /\ Accepts(r, q, FALSE)
          /\ q.path = "/api/users"
          /\ q.method = "POST"
          /\ req' = [req EXCEPT ![r] = [Accepted(r, q, FALSE) EXCEPT !.pc = "decode"]]
    /\ UNCHANGED <<procVars, db, dbVars>>

\* handleAddUser up to the insert: decode, then the name check.
HandleAddUserValidate(r) ==
    /\ req[r].pc = "decode"
    /\ LET d == Decode(req[r].body) IN
          req' = [req EXCEPT ![r] =
              IF d.err
              THEN Respond(req[r], StatusBadRequest,
                           ErrorJSON("Invalid request payload"), "none")
              ELSE IF NameMissing(d.name)
              THEN Respond(req[r], StatusBadRequest,
                           ErrorJSON("Name is required"), "none")
              ELSE [@ EXCEPT !.pc = "insert", !.name = d.name, !.body = NoBody]]
    /\ UNCHANGED <<procVars, db, dbVars>>

\* nextval of the sequence behind id SERIAL.
NextVal(sq) == sq + 1

\* The return after the 500 left out: the handler goes on to write 201.
AddUserStatusNoReturn(err) == StatusCreated

\* The status handleAddUser answers with, given the error of QueryRow.Scan.
AddUserStatus(err) ==
    IF err # "none" THEN StatusInternalServerError ELSE StatusCreated

\* What handleAddUser writes after QueryRow(...).Scan(&newUserID).
AddUserRespond(rec, err, id) ==
    Respond(rec, AddUserStatus(err),
            IF AddUserStatus(err) = StatusCreated
            THEN UserResponse(id, rec.name)
            ELSE ErrorJSON("Failed to add user to database"),
            err)

\* app.db.QueryRow(r.Context(), "INSERT INTO users (name) VALUES ($1)
\* RETURNING id", req.Name): the statement reaches the database, which
\* inserts and commits the row and sends back its id; or it fails before
\* the database has executed it.
HandleAddUserInsert(r) ==
    /\ req[r].pc = "insert"
    /\ IF CallFails(req[r])
       THEN /\ req' = [req EXCEPT ![r] = AddUserRespond(req[r], "insert", 0)]
            /\ UNCHANGED dbVars
       ELSE /\ seq' = NextVal(seq)
            /\ rows' = Append(rows, User(seq', req[r].name))
            /\ req' = [req EXCEPT ![r] = [@ EXCEPT !.pc = "scan", !.reply = seq']]
            /\ UNCHANGED tableExists
    /\ UNCHANGED <<procVars, db>>

\* The returned row never scanned: newUserID keeps its zero value.
ScanIDUnset(reply) == 0

\* The id Scan(&newUserID) stores from the row the database returned.
ScanID(reply) == reply

\* .Scan(&newUserID): reads the returned row; fails when the connection is
\* lost or the context is done before the row has been read, newUserID
\* then keeps its zero value.
HandleAddUserScan(r) ==
    /\ req[r].pc = "scan"
    /\ req' = [req EXCEPT ![r] =
                 IF CallFails(req[r])
                 THEN AddUserRespond(req[r], "scan", 0)
                 ELSE AddUserRespond(req[r], "none", ScanID(req[r].reply))]
    /\ UNCHANGED <<procVars, db, dbVars>>

\* The ping run under r.Context(): done when the request's context is.
HealthCheckCtxOfRequest(rec) == rec.cancelled

\* Whether the context of the ping is done with the request's context:
\* context.WithTimeout(context.Background(), dbPingTimeout) is not.
HealthCheckCtxDone(rec) == FALSE

\* handleHealthCheck: app.db.Ping under the ping's own context; a ping
\* that does not return within dbPingTimeout has failed.
HandleHealthCheck(r) ==
    /\ \E q \in Requests, gone \in BOOLEAN :
          /\ Accepts(r, q, gone)
          /\ q.path = "/_internal/health"
          /\ LET rec == Accepted(r, q, gone) IN
             req' = [req EXCEPT ![r] =
                 IF db # "up" \/ HealthCheckCtxDone(rec)
                 THEN Respond(rec, StatusBadGateway, EmptyResp, "ping")
                 ELSE Respond(rec, StatusOK, EmptyResp, "none")]
    /\ UNCHANGED <<procVars, db, dbVars>>

Next ==
    \/ InitDBPool
    \/ InitDBExec
    \/ Listen
    \/ Restart
    \/ DbFlip
    \/ \E r \in ReqIds :
          \/ Cancel(r)
          \/ HandleOtherMethod(r)
          \/ HandleGetUsersQuery(r)
          \/ HandleGetUsersRows(r)
          \/ HandleAddUserAccept(r)
          \/ HandleAddUserValidate(r)
          \/ HandleAddUserInsert(r)
          \/ HandleAddUserScan(r)
          \/ HandleHealthCheck(r)

Spec == Init /\ [][Next]_vars

--------------------------------------------------------------------------
(* Properties.                                                             *)

IsDone(r, method, path) ==
    req[r].pc = "done" /\ req[r].method = method /\ req[r].path = path

\* Request r's handler takes the step from position `from` to its response.
Completes(r, from) == req[r].pc = from /\ req'[r].pc = "done"

Ids(rws) == {rws[i].id : i \in 1..Len(rws)}
Elems(rws) == {rws[i] : i \in 1..Len(rws)}

\* C7: no request is handled before pool construction and the bootstrap
\* statement have both succeeded; when either fails the process exits
\* with a non-zero status and a logged cause, its routes never registered,
\* and it never listens.
ServingNeedsBootstrap ==
    /\ [](proc \in {"ready", "listening"} => pool = "open" /\ bootstrapped)
    /\ [](routes => pool = "open" /\ bootstrapped)
    /\ [](\A r \in ReqIds : InFlight(r) => proc = "listening" /\ bootstrapped)
    /\ [](proc = "exited" /\ ~(pool = "open" /\ bootstrapped)
             => exitCode # 0 /\ logged # "" /\ ~routes)
    /\ [][\A r \in ReqIds :
            req[r].pc = "idle" /\ req'[r].pc # "idle"
               => proc = "listening" /\ pool = "open" /\ bootstrapped /\ routes]_vars

\* A process served a request, was started again, and the bootstrap
\* statement of the new run failed.
ServingNeedsBootstrapWitness ==
    /\ proc = "exited" /\ pool = "open" /\ ~bootstrapped /\ exitCode = 1
    /\ \E r \in ReqIds : req[r].pc = "done"

\* C8: a run of the bootstrap statement after a successful earlier run,
\* the database being reachable, raises no error and leaves the users
\* table with the same rows, ids and names (and its sequence where it was);
\* when the database is unreachable it fails without touching the table.
BootstrapIdempotent ==
    /\ [](boots >= 1 => tableExists)
    /\ [][proc = "pool" /\ proc' \in {"ready", "exited"} /\ boots >= 1
            => /\ db = "up" => proc' = "ready" /\ bootstrapped'
               /\ tableExists' /\ rows' = rows /\ seq' = seq]_vars

\* The bootstrap has succeeded twice, the second time on a table with rows.
BootstrapIdempotentWitness ==
    boots = 2 /\ bootstrapped /\ Len(rows) >= 1

\* C9: every row has a non-empty name and an id of its own; a row, once
\* present, stays with its id and name; the table changes only in the
\* insert step of a POST on /api/users, which appends one row: GET
\* /api/users, GET /_internal/health and the other methods leave it as it is.
TableAppendOnly ==
    /\ [](\A i \in 1..Len(rows) :
             /\ rows[i].name # ""
             /\ \A j \in 1..Len(rows) : rows[i].id = rows[j].id => i = j)
    /\ [][rows' # rows =>
            /\ Len(rows') = Len(rows) + 1
            /\ SubSeq(rows', 1, Len(rows)) = rows
            /\ \E r \in ReqIds :
                  /\ req[r].method = "POST" /\ req[r].path = "/api/users"
                  /\ req[r].pc = "insert" /\ req'[r].pc = "scan"
                  /\ rows'[Len(rows')].name = req[r].name]_vars
    /\ [][\A r \in ReqIds :
            /\ req'[r] # req[r]
            /\ \/ req'[r].method # "POST"
               \/ req[r].pc # "insert"
            => rows' = rows]_vars

\* Two rows are in the table, and a GET, a health check or a request of
\* another method has been answered.
TableAppendOnlyWitness ==
    /\ Len(rows) >= 2
    /\ \E r \in ReqIds : req[r].pc = "done" /\ req[r].method # "POST"

\* What the claim of the validation order reads off a body.
IsJSON(body) == body.first = "object" /\ body.rest = ""
HasUnknownField(body) ==
    \E i \in 1..Len(body.fields) : body.fields[i][1] # "name"
NameIsString(body) ==
    \A i \in 1..Len(body.fields) :
        body.fields[i][1] = "name" => body.fields[i][2].t = "string"
NameAbsentOrEmpty(body) ==
    \A i \in 1..Len(body.fields) :
        body.fields[i][1] = "name" => body.fields[i][2].s = ""

\* C3: a body that is not valid JSON of the expected shape or carries an
\* unknown field is answered 400 "Invalid request payload"; otherwise a
\* body whose name is absent or empty is answered 400 "Name is required";
\* only a body that passes both checks goes on to the insert; the 400
\* answers come with no data-access call and the table unchanged.
ValidationOrder ==
    [][\A r \in ReqIds :
          req[r].pc = "decode" /\ req'[r].pc \notin {"decode", "dropped"}
          => LET body == req[r].body IN
             IF ~IsJSON(body) \/ HasUnknownField(body) \/ ~NameIsString(body)
             THEN /\ req'[r].pc = "done"
                  /\ req'[r].status = StatusBadRequest
                  /\ req'[r].resp = ErrorJSON("Invalid request payload")
                  /\ req'[r].reply = 0
                  /\ UNCHANGED dbVars
             ELSE IF NameAbsentOrEmpty(body)
             THEN /\ req'[r].pc = "done"
                  /\ req'[r].status = StatusBadRequest
                  /\ req'[r].resp = ErrorJSON("Name is required")
                  /\ req'[r].reply = 0
                  /\ UNCHANGED dbVars
             ELSE /\ req'[r].pc = "insert"
                  /\ req'[r].name # ""]_vars

\* C4: a GET /api/users whose data access failed, at the query, while the
\* rows are iterated or at a scan, is answered 500 with the error text,
\* never 200 with a list.
GetFailureIs500 ==
    \A r \in ReqIds :
        IsDone(r, "GET", "/api/users") /\ req[r].err # "none"
           => /\ req[r].status = StatusInternalServerError
              /\ req[r].resp.type = "error_text"

\* C5: a GET /api/users whose data access succeeds is answered 200 with
\* exactly the rows that were committed when its SELECT executed, in a
\* list that is [] and not null when there were none.
GetListsCommittedRows ==
    /\ [][\A r \in ReqIds :
            req[r].pc = "idle" /\ req'[r].pc = "rows" => req'[r].snap = rows]_vars
    /\ [][\A r \in ReqIds :
            Completes(r, "rows") /\ req'[r].err = "none"
               => /\ req'[r].status = StatusOK
                  /\ req'[r].resp.type = "users"
                  /\ ~req'[r].resp.null
                  /\ req'[r].resp.users = req[r].snap]_vars

\* One GET was answered with the empty list and another with a list of rows.
GetListsCommittedRowsWitness ==
    \E p, q \in ReqIds :
        /\ IsDone(p, "GET", "/api/users") /\ req[p].err = "none"
        /\ IsDone(q, "GET", "/api/users") /\ req[q].err = "none"
        /\ req[p].status = StatusOK /\ req[p].resp.users = <<>>
        /\ req[q].status = StatusOK /\ Len(req[q].resp.users) >= 1

\* C1: the id a POST is answered 201 with is the id of no row that was
\* there before, and every GET /api/users that executes after that answer
\* and is answered 200 lists the created (id, name).
CreatedUserIsListed ==
    /\ [][\A r \in ReqIds :
            req[r].pc = "insert" /\ req'[r].pc = "scan"
               => req'[r].reply \notin Ids(rows)]_vars
    /\ [][\A r \in ReqIds :
            Completes(r, "scan") /\ req'[r].status = StatusCreated
               => req'[r].resp = UserResponse(req[r].reply, req[r].name)]_vars
    /\ [][\A r \in ReqIds :
            Completes(r, "rows") /\ req'[r].status = StatusOK
               => req[r].acked \subseteq Elems(req'[r].resp.users)]_vars

\* C2: concurrent POSTs whose data access does not fail are all answered
\* 201 with the id the database gave their row, the ids answered are
\* pairwise distinct, and a GET /api/users that executes after them, its
\* data access not failing either, lists every (id, name) answered 201.
ConcurrentCreates ==
    /\ [][\A r \in ReqIds :
            Completes(r, "scan") /\ req'[r].err = "none"
               => /\ req'[r].status = StatusCreated
                  /\ req'[r].resp = UserResponse(req[r].reply, req[r].name)
                  /\ req'[r].resp \notin {req[p].resp : p \in ReqIds \ {r}}
                  /\ req'[r].resp.id \notin {u.id : u \in Acked}]_vars
    /\ [](\A p, q \in ReqIds :
             /\ p # q
             /\ req[p].status = StatusCreated /\ req[q].status = StatusCreated
             => req[p].resp.id # req[q].resp.id)
    /\ [][\A r \in ReqIds :
            Completes(r, "rows") /\ req'[r].err = "none"
               => /\ req'[r].status = StatusOK
                  /\ req[r].acked \subseteq Elems(req'[r].resp.users)]_vars

\* Requests 1 and 2 were POSTs in flight together (the database ran the
\* insert of request 2 first), both answered 201, and request 3, a GET,
\* lists both.
ConcurrentCreatesWitness ==
    /\ IsDone(1, "POST", "/api/users") /\ req[1].status = StatusCreated
    /\ IsDone(2, "POST", "/api/users") /\ req[2].status = StatusCreated
    /\ req[1].resp.id = 2 /\ req[2].resp.id = 1
    /\ req[1].resp.name # req[2].resp.name
    /\ IsDone(3, "GET", "/api/users") /\ req[3].err = "none"
    /\ Len(req[3].resp.users) = 2

\* C6: GET /_internal/health is answered 200 exactly when the database is
\* reachable for the ping and 502 otherwise, with an empty body, whether
\* or not the request's own context is done, and changes nothing but the
\* request's own record.
HealthReflectsDatabase ==
    [][\A r \in ReqIds :
          req[r].pc = "idle" /\ req'[r].path = "/_internal/health"
          => /\ req'[r].pc = "done"
             /\ req'[r].status = (IF db = "up" THEN StatusOK ELSE StatusBadGateway)
             /\ req'[r].resp = EmptyResp
             /\ UNCHANGED <<procVars, db, dbVars>>
             /\ \A p \in ReqIds \ {r} : req'[p] = req[p]]_vars

\* One health check was answered 200 and another 502.
HealthReflectsDatabaseWitness ==
    \E p, q \in ReqIds :
        /\ IsDone(p, "GET", "/_internal/health") /\ req[p].status = StatusOK
        /\ IsDone(q, "GET", "/_internal/health") /\ req[q].status = StatusBadGateway

\* The requests whose insert the database executed as row `id`.
InsertedBy(id) == {r \in ReqIds : req[r].reply = id}

\* C10 as stated: a POST has added a row if and only if it is answered 201;
\* one answered 500 has left no row.
RowIffCreated ==
    \A r \in ReqIds :
        IsDone(r, "POST", "/api/users")
           => (req[r].reply # 0 <=> req[r].status = StatusCreated)

\* C10 as amended: a POST answered 201 has added exactly the row it
\* reports; one answered 400 has added none; one answered 500 has added
\* none when the insert failed before the database executed it, and has
\* added its row when the failure came after the database had committed
\* the insert and before the returned id was read. Every row comes from
\* one request.
RowUnlessLostReply ==
    /\ \A r \in ReqIds :
          IsDone(r, "POST", "/api/users") =>
             /\ req[r].status \in {StatusCreated, StatusBadRequest,
                                    StatusInternalServerError}
             /\ req[r].status = StatusCreated =>
                   /\ req[r].err = "none" /\ req[r].reply # 0
                   /\ req[r].resp.id = req[r].reply
                   /\ User(req[r].reply, req[r].resp.name) \in Elems(rows)
             /\ req[r].status = StatusBadRequest => req[r].reply = 0
             /\ req[r].status = StatusInternalServerError =>
                   /\ req[r].resp = ErrorJSON("Failed to add user to database")
                   /\ req[r].err = "insert" => req[r].reply = 0
                   /\ req[r].err = "scan" =>
                         /\ req[r].reply # 0
                         /\ req[r].reply \in Ids(rows)
                   /\ req[r].err \in {"insert", "scan"}
    /\ \A id \in Ids(rows) : Cardinality(InsertedBy(id)) = 1

\* A POST was answered 500 and its row is in the table.
RowUnlessLostReplyWitness ==
    \E r \in ReqIds :
        /\ IsDone(r, "POST", "/api/users")
        /\ req[r].status = StatusInternalServerError
        /\ req[r].reply \in Ids(rows)

====
